---------------------------- MODULE Spec2Model ----------------------------
(***************************************************************************)
(* Model of the data-organization service: the dataset tree mapper         *)
(* (create_dataset_mapping), the difference engine (get_diffs), the        *)
(* sampler (prepare_sample), the transfer executor (copy_or_move_images)   *)
(* and the two entry operations (run_random_sample, run_move_images),      *)
(* running against a labeling platform that holds two projects.            *)
(*                                                                         *)
(* Every call that changes the platform (dataset create, image copy,       *)
(* image remove, collection update) is one step of a request, and every    *)
(* such call may fail, which ends the request with an error.               *)
(***************************************************************************)
EXTENDS Integers, Sequences, FiniteSets, TLC

VARIABLES
    src_datasets,   \* source project: flat dataset list, [id, name, parent_id]
    dst_datasets,   \* destination project: flat dataset list, in creation order
    src_images,     \* source dataset id -> images [id, name] in listing order
    dst_images,     \* destination dataset id -> images [id, name, copy_of]
    next_image_id,  \* the platform's next fresh image id
    src_collection, \* image ids held by the source collection
    dst_collections,\* destination collections created by splits: [kind, items]
    req,            \* request id -> the request's locals and position
    create_log,     \* every dataset.create call issued, in order
    run_counts      \* per-dataset counts of the sampler runs already finished

vars == <<src_datasets, dst_datasets, src_images, dst_images, next_image_id,
          src_collection, dst_collections, req, create_log, run_counts>>

platform == <<src_datasets, dst_datasets, src_images, dst_images,
              next_image_id, src_collection, dst_collections>>

\* Python's None, for dataset ids and parent ids (platform ids start at 1).
None == 0

-----------------------------------------------------------------------------
(* Python values: dicts, lists, float arithmetic.                          *)

\* A dict is a function with a finite domain; d.get(k) is None for a missing key.
EmptyDict == [k \in {} |-> None]
DictGet(d, k) == IF k \in DOMAIN d THEN d[k] ELSE None
DictPut(d, k, v) == (k :> v) @@ d

RECURSIVE SumSeq(_)
SumSeq(s) == IF s = <<>> THEN 0 ELSE Head(s) + SumSeq(Tail(s))

SeqToSet(s) == {s[k] : k \in DOMAIN s}

\* list.remove(x): drops the first occurrence.
RECURSIVE ListRemove(_, _)
ListRemove(s, x) ==
    IF s = <<>> THEN <<>>
    ELSE IF Head(s) = x THEN Tail(s)
    ELSE <<Head(s)>> \o ListRemove(Tail(s), x)

\* Every ordering of every k-element selection of the list positions 1..n:
\* the outcomes of random.sample(list, k), as position sequences.
RECURSIVE Arrangements(_, _)
Arrangements(S, k) ==
    IF k = 0 THEN {<<>>}
    ELSE UNION {{<<x>> \o rest : rest \in Arrangements(S \ {x}, k - 1)} : x \in S}

(* IEEE-754 double arithmetic, as Python evaluates int((a / b) * c) for    *)
(* small non-negative integers: a / b is rounded to 53 significant bits    *)
(* (round half to even), the product with c is rounded again, and int()    *)
(* truncates.  A double is held as base-512 digits of a 54-bit integer q   *)
(* (the lowest bit is the guard bit) with value q * 2^(exp - 53).          *)
Radix == 512

RECURSIVE FloatExp(_, _)
FloatExp(a, b) ==
    IF a >= 2 * b THEN 1 + FloatExp(a, 2 * b)
    ELSE IF a < b THEN FloatExp(2 * a, b) - 1
    ELSE 0

RECURSIVE Pow2(_)
Pow2(n) == IF n = 0 THEN 1 ELSE 2 * Pow2(n - 1)

RECURSIVE BitLen(_)
BitLen(n) == IF n = 0 THEN 0 ELSE 1 + BitLen(n \div 2)

RECURSIVE DivDigits(_, _, _)
DivDigits(num, b, n) ==
    IF n = 0 THEN << IF num # 0 THEN 1 ELSE 0 >>
    ELSE <<num \div b>> \o DivDigits((num % b) * Radix, b, n - 1)

RECURSIVE AddDigits(_, _, _)
AddDigits(ds, i, v) ==
    IF v = 0 \/ i = 0 THEN ds
    ELSE LET s == ds[i] + v
         IN  AddDigits([ds EXCEPT ![i] = s % Radix], i - 1, s \div Radix)

RECURSIVE MulDigits(_, _, _, _)
MulDigits(ds, c, i, carry) ==
    IF i = 0 THEN <<carry>>
    ELSE LET v == ds[i] * c + carry
         IN  MulDigits(ds, c, i - 1, v \div Radix) \o <<v % Radix>>

RECURSIVE DigitsToInt(_, _)
DigitsToInt(ds, n) ==
    IF n = 0 THEN 0 ELSE Radix * DigitsToInt(ds, n - 1) + ds[n]

\* Round the digit string to a multiple of 2^s, half to even.
RoundLow(ds, s, sticky) ==
    LET n       == Len(ds)
        lo      == ds[n - 1] * Radix + ds[n]
        dropped == lo % Pow2(s)
        half    == Pow2(s - 1)
        lsb     == (lo \div Pow2(s)) % 2
        up      == dropped > half
                   \/ (dropped = half /\ (sticky \/ lsb = 1))
        cleared == [ds EXCEPT ![n - 1] = (lo - dropped) \div Radix,
                              ![n]     = (lo - dropped) % Radix]
    IN  IF up THEN AddDigits(cleared, n, Pow2(s)) ELSE cleared

\* float(a) / float(b)
FloatDiv(a, b) ==
    IF a = 0 THEN [digits |-> <<0, 0, 0, 0, 0, 0, 0>>, exp |-> 0]
    ELSE LET e   == FloatExp(a, b)
             an  == IF e < 0 THEN a * Pow2(-e) ELSE a
             bn  == IF e > 0 THEN b * Pow2(e) ELSE b
             raw == DivDigits(an * (Radix \div 2), bn, 6)
             q   == <<0>> \o SubSeq(raw, 1, 6)
         IN  [digits |-> RoundLow(q, 1, raw[7] = 1), exp |-> e]

\* x * float(c)
FloatMulInt(x, c) ==
    LET p     == MulDigits(x.digits, c, Len(x.digits), 0)
        extra == BitLen(DigitsToInt(p, 2))
    IN  [digits |-> IF extra = 0 THEN p ELSE RoundLow(p, extra + 1, FALSE),
         exp |-> x.exp]

\* int(x), x >= 0
FloatToInt(x) ==
    LET k    == 53 - x.exp
        n    == Len(x.digits)
        drop == k \div 9
    IN  IF drop >= n THEN 0
        ELSE DigitsToInt(x.digits, n - drop) \div Pow2(k % 9)

\* int((a / b) * c), the form of every proportional count in the program.
IntOfQuotientTimes(a, b, c) == FloatToInt(FloatMulInt(FloatDiv(a, b), c))

-----------------------------------------------------------------------------
(* The platform's dataset trees.  A project's tree (api.dataset.get_tree)  *)
(* is read off its flat list: the children of a node are the datasets      *)
(* whose parent_id names it, in listing order.                             *)

Children(datasets, parent_id) ==
    SelectSeq(datasets, LAMBDA ds : ds.parent_id = parent_id)

DatasetIds(datasets) == {datasets[k].id : k \in DOMAIN datasets}

\* No two datasets under one parent share a name (the platform's rule).
UniqueSiblingNames(datasets) ==
    \A a, b \in DOMAIN datasets :
        (a # b /\ datasets[a].parent_id = datasets[b].parent_id)
            => datasets[a].name # datasets[b].name


-----------------------------------------------------------------------------
(* Dataset Tree Mapper: create_dataset_mapping.                            *)

\* A variant that looks for the name anywhere in the destination tree.
GlobalCandidates(dst_tree, dst_level) == dst_tree

\* The destination datasets a source node is compared with: dst_tree.items()
\* of the level handed down by the caller.
MatchCandidates(dst_tree, dst_level) == dst_level

\* for src_ds_info, src_children in src_tree.items(): ... , with the closure's
\* src_to_dst_map and ds_to_create threaded through as acc.
RECURSIVE process_datasets(_, _, _, _, _)
process_datasets(src_tree, dst_tree, src_level, dst_level, acc) ==
    IF src_level = <<>> THEN acc
    ELSE
      LET src_ds_info == Head(src_level)
          src_children == Children(src_tree, src_ds_info.id)
          matches == SelectSeq(MatchCandidates(dst_tree, dst_level),
                               LAMBDA dst_info : dst_info.name = src_ds_info.name)
          done ==
            IF matches # <<>>
            THEN LET dst_ds_info == Head(matches)
                 IN  process_datasets(
                        src_tree, dst_tree, src_children,
                        Children(dst_tree, dst_ds_info.id),
                        [acc EXCEPT !.src_to_dst_map =
                            DictPut(@, src_ds_info.id, dst_ds_info.id)])
            ELSE process_datasets(
                    src_tree, dst_tree, src_children, <<>>,
                    [src_to_dst_map |->
                        DictPut(acc.src_to_dst_map, src_ds_info.id, None),
                     ds_to_create |-> Append(acc.ds_to_create, src_ds_info.id)])
      IN  process_datasets(src_tree, dst_tree, Tail(src_level), dst_level, done)

create_dataset_mapping(src_ds_tree, dst_ds_tree) ==
    process_datasets(src_ds_tree, dst_ds_tree,
                     Children(src_ds_tree, None), Children(dst_ds_tree, None),
                     [src_to_dst_map |-> EmptyDict, ds_to_create |-> <<>>])

-----------------------------------------------------------------------------
(* Difference Engine: get_diffs.  A difference set is an insertion-ordered *)
(* dict, held as the sequence of its items [ds, imgs].                     *)

\* {img.name: img for img in imgs}.values(): one entry per name, at the place
\* of the name's first image, holding the name's last image.
RECURSIVE NameDictValues(_, _)
NameDictValues(imgs, k) ==
    IF k > Len(imgs) THEN <<>>
    ELSE IF \E j \in 1..(k - 1) : imgs[j].name = imgs[k].name
         THEN NameDictValues(imgs, k + 1)
         ELSE LET last == CHOOSE j \in k..Len(imgs) :
                             /\ imgs[j].name = imgs[k].name
                             /\ \A h \in (j + 1)..Len(imgs) :
                                    imgs[h].name # imgs[k].name
              IN  <<imgs[last]>> \o NameDictValues(imgs, k + 1)

ImageNames(imgs) == {imgs[k].name : k \in DOMAIN imgs}

\* A variant that reports nothing for a dataset the destination lacks.
AbsentGivesNothing(src_imgs) == <<>>

\* diff_images[src_ds.id].extend(src_imgs) when the destination is absent
AbsentDiff(src_imgs) == src_imgs

\* the images appended one by one when the destination dataset exists
PresentDiff(src_imgs, dst_imgs) ==
    SelectSeq(NameDictValues(src_imgs, 1),
              LAMBDA img : img.name \notin ImageNames(dst_imgs))

\* for src_ds in src_datasets: ... ; a defaultdict gains a key when it is
\* indexed, so the absent branch adds the key even for an empty listing.
RECURSIVE diff_loop(_, _, _, _, _)
diff_loop(flat, k, src_to_dst_map, imgs_src, imgs_dst) ==
    IF k > Len(flat) THEN <<>>
    ELSE
      LET src_ds == flat[k]
          dst_ds == DictGet(src_to_dst_map, src_ds.id)
          src_imgs == imgs_src[src_ds.id]
          rest == diff_loop(flat, k + 1, src_to_dst_map, imgs_src, imgs_dst)
      IN  IF dst_ds = None
          THEN <<[ds |-> src_ds.id, imgs |-> AbsentDiff(src_imgs)]>> \o rest
          ELSE LET d == PresentDiff(src_imgs, imgs_dst[dst_ds])
               IN  IF d # <<>> THEN <<[ds |-> src_ds.id, imgs |-> d]>> \o rest
                   ELSE rest

get_diffs(flat, src_tree, dst_tree, imgs_src, imgs_dst) ==
    LET m == create_dataset_mapping(src_tree, dst_tree)
    IN  [diff_images |-> diff_loop(flat, 1, m.src_to_dst_map, imgs_src, imgs_dst),
         src_to_dst_map |-> m.src_to_dst_map,
         ds_to_create |-> m.ds_to_create]

\* diffs[ds_id] of an ordered dict (a defaultdict: a missing key reads as [])
DictItems(d, ds_id) ==
    LET hits == SelectSeq(d, LAMBDA e : e.ds = ds_id)
    IN  IF hits = <<>> THEN <<>> ELSE Head(hits).imgs

DictKeys(d) == {d[k].ds : k \in DOMAIN d}

-----------------------------------------------------------------------------
(* Sampler: prepare_sample.                                                *)

total_diffs(diffs) == SumSeq([k \in DOMAIN diffs |-> Len(diffs[k].imgs)])

\* A variant that rounds the proportional share up.
CeilShare(n, total, sample_size) == (n * sample_size + total - 1) \div total

\* ds_sample = int((len(imgs) / total_diffs) * sample_size)
ds_sample(n, total, sample_size) == IntOfQuotientTimes(n, total, sample_size)

proportional_samples(diffs, sample_size) ==
    [ds_id \in DictKeys(diffs) |->
        ds_sample(Len(DictItems(diffs, ds_id)), total_diffs(diffs), sample_size)]

SumCounts(samples) ==
    LET RECURSIVE Sum(_)
        Sum(S) == IF S = {} THEN 0
                  ELSE LET x == CHOOSE x \in S : TRUE
                       IN  samples[x] + Sum(S \ {x})
    IN  Sum(DOMAIN samples)

\* A variant whose loop counts a pick of a full dataset as handed out.
RECURSIVE DecrementAlways(_, _, _, _)
DecrementAlways(diffs, samples, remaining, datasets_with_space) ==
    IF ~(remaining > 0 /\ datasets_with_space # <<>>) THEN {samples}
    ELSE UNION {
        IF Len(DictItems(diffs, ds_id)) > samples[ds_id]
        THEN DecrementAlways(diffs, [samples EXCEPT ![ds_id] = @ + 1],
                             remaining - 1, datasets_with_space)
        ELSE DecrementAlways(diffs, samples, remaining - 1,
                             ListRemove(datasets_with_space, ds_id))
        : ds_id \in SeqToSet(datasets_with_space)}

\* while remaining > 0 and datasets_with_space: ds_id = random.choice(...)
\* Every final samples_per_dataset the loop can end with.
RECURSIVE distribute_remaining(_, _, _, _)
distribute_remaining(diffs, samples, remaining, datasets_with_space) ==
    IF ~(remaining > 0 /\ datasets_with_space # <<>>) THEN {samples}
    ELSE UNION {
        IF Len(DictItems(diffs, ds_id)) > samples[ds_id]
        THEN distribute_remaining(diffs, [samples EXCEPT ![ds_id] = @ + 1],
                                  remaining - 1, datasets_with_space)
        ELSE distribute_remaining(diffs, samples, remaining,
                                  ListRemove(datasets_with_space, ds_id))
        : ds_id \in SeqToSet(datasets_with_space)}

\* The final samples_per_dataset values of a run with sample_size < total.
samples_per_dataset(diffs, sample_size) ==
    LET shares == proportional_samples(diffs, sample_size)
        remaining == sample_size - SumCounts(shares)
        keys == [k \in DOMAIN diffs |-> diffs[k].ds]
        datasets_with_space ==
            SelectSeq(keys, LAMBDA ds_id :
                Len(DictItems(diffs, ds_id)) > shares[ds_id])
    IN  IF remaining > 0
        THEN distribute_remaining(diffs, shares, remaining, datasets_with_space)
        ELSE {shares}

\* sampled_images[ds_id] = random.sample(diffs[ds_id], sample_count), for the
\* datasets with sample_count > 0, in the dict's order.  random.sample raises
\* when asked for more than the list holds: then there is no outcome.
RECURSIVE random_samples(_, _, _)
random_samples(diffs, samples, k) ==
    IF k > Len(diffs) THEN {<<>>}
    ELSE
      LET e == diffs[k]
          c == samples[e.ds]
          rest == random_samples(diffs, samples, k + 1)
      IN  IF c > 0
          THEN {<<[ds |-> e.ds, imgs |-> [i \in 1..c |-> e.imgs[a[i]]]]>> \o r :
                    a \in Arrangements(1..Len(e.imgs), c), r \in rest}
          ELSE rest

\* Every (samples_per_dataset, sampled_images) a call can produce; the early
\* return hands back diffs itself and computes no samples_per_dataset.
prepare_sample(diffs, sample_size) ==
    IF sample_size >= total_diffs(diffs)
    THEN {[samples_per_dataset |-> EmptyDict, sampled_images |-> diffs]}
    ELSE UNION {
            {[samples_per_dataset |-> s, sampled_images |-> sel] :
                sel \in random_samples(diffs, s, 1)}
            : s \in samples_per_dataset(diffs, sample_size)}

-----------------------------------------------------------------------------
(* Requests.  A request is one call of an entry operation; req[p] holds    *)
(* its arguments, its locals and the call it is about to make.             *)

Requests == {1, 2}

IdleRequest ==
    [pc |-> "idle", kind |-> "none", move |-> FALSE,
     sample_size |-> 0, image_ids |-> <<>>,
     diff_images |-> <<>>, samples_per_dataset |-> EmptyDict,
     src_to_dst_map |-> EmptyDict, ds_to_create |-> <<>>,
     sampled_images |-> <<>>,
     i |-> 0, j |-> 0, dst_parent_id |-> None, dst_ds_id |-> None,
     new_imgs |-> <<>>, src |-> EmptyDict, added |-> EmptyDict,
     copied_to |-> EmptyDict,
     num_added |-> 0, train_percent |-> 0, val_percent |-> 0,
     split_mode |-> "none", train_ids |-> <<>>, val_ids |-> <<>>,
     result |-> [kind |-> "none"]]

ImageIds(imgs) == [k \in DOMAIN imgs |-> imgs[k].id]

AllImages(images) == UNION {SeqToSet(images[d]) : d \in DOMAIN images}

DatasetInfo(datasets, id) == CHOOSE ds \in SeqToSet(datasets) : ds.id = id

\* src_child_to_parents[ds.id]: the ancestors of a source dataset, nearest first
RECURSIVE src_child_to_parents(_, _)
src_child_to_parents(flat, ds_id) ==
    LET parent_id == DatasetInfo(flat, ds_id).parent_id
    IN  IF parent_id = None THEN <<>>
        ELSE <<parent_id>> \o src_child_to_parents(flat, parent_id)

\* The return of copy_or_move_images to its caller: run_random_sample returns
\* at once; run_move_images goes on to the collection bookkeeping.
TransferReturns(r) ==
    IF r.kind = "sample"
    THEN [r EXCEPT !.pc = "done",
                   !.result = [kind |-> "data", src |-> r.src, dst |-> r.added]]
    ELSE [r EXCEPT !.pc = "after_transfer"]

\* for src_ds_id, src_imgs in sampled_images.items(): up to the next call that
\* changes the platform (items with no images are passed over).
RECURSIVE NextCall(_, _)
NextCall(flat, r) ==
    IF r.i > Len(r.sampled_images) THEN TransferReturns(r)
    ELSE
      LET src_ds_id == r.sampled_images[r.i].ds
          src_imgs == r.sampled_images[r.i].imgs
          dst_ds_id == DictGet(r.src_to_dst_map, src_ds_id)
      IN  IF Len(src_imgs) = 0 THEN NextCall(flat, [r EXCEPT !.i = @ + 1])
          ELSE IF dst_ds_id = None /\ src_ds_id \in SeqToSet(r.ds_to_create)
          THEN [r EXCEPT !.pc = IF src_child_to_parents(flat, src_ds_id) = <<>>
                                THEN "create_self" ELSE "create_parent",
                         !.j = 1, !.dst_parent_id = None, !.dst_ds_id = None]
          ELSE [r EXCEPT !.pc = "copy", !.dst_ds_id = dst_ds_id]

\* The caller's except clause: any failing call ends the request.
Raise(r) == [r EXCEPT !.pc = "failed", !.result = [kind |-> "error"]]

-----------------------------------------------------------------------------
(* Entry operations.                                                       *)

\* {"src": None, "dst": None}
NothingToDo == [kind |-> "null"]

\* run_random_sample, up to its first call that changes the platform
random_sample(p, sample_size) ==
    /\ req[p].pc = "idle"
    /\ \/ /\ sample_size = 0
          /\ req' = [req EXCEPT ![p] =
                [@ EXCEPT !.pc = "done", !.kind = "sample",
                          !.sample_size = sample_size, !.result = NothingToDo]]
       \/ /\ sample_size # 0
          /\ LET diffs == get_diffs(src_datasets, src_datasets, dst_datasets,
                                    src_images, dst_images)
                 started == [req[p] EXCEPT
                                !.kind = "sample", !.sample_size = sample_size,
                                !.diff_images = diffs.diff_images,
                                !.src_to_dst_map = diffs.src_to_dst_map,
                                !.ds_to_create = diffs.ds_to_create]
             IN  IF diffs.diff_images = <<>>
                 THEN req' = [req EXCEPT ![p] =
                        [started EXCEPT !.pc = "done", !.result = NothingToDo]]
                 ELSE \E s \in prepare_sample(diffs.diff_images, sample_size) :
                        req' = [req EXCEPT ![p] = NextCall(src_datasets,
                            [started EXCEPT
                                !.samples_per_dataset = s.samples_per_dataset,
                                !.sampled_images = s.sampled_images,
                                !.i = 1])]
       \/ /\ sample_size # 0
          /\ req' = [req EXCEPT ![p] =
                Raise([@ EXCEPT !.kind = "sample", !.sample_size = sample_size])]
    /\ UNCHANGED <<platform, create_log, run_counts>>

\* items[img_info.dataset_id].append(img_info): the requested images grouped
\* by dataset, datasets in order of first appearance.
RECURSIVE group_items(_, _)
group_items(img_infos, items) ==
    IF img_infos = <<>> THEN items
    ELSE
      LET img == Head(img_infos)
          at == {k \in DOMAIN items : items[k].ds = img.dataset_id}
      IN  group_items(Tail(img_infos),
            IF at = {}
            THEN Append(items, [ds |-> img.dataset_id,
                                imgs |-> <<[id |-> img.id, name |-> img.name]>>])
            ELSE LET k == CHOOSE k \in at : TRUE
                 IN  [items EXCEPT ![k].imgs =
                        Append(@, [id |-> img.id, name |-> img.name])])

\* api.image.get_info_by_id_batch(image_ids)
ImageInfoById(images, id) ==
    LET d == CHOOSE d \in DOMAIN images : \E k \in DOMAIN images[d] : images[d][k].id = id
        img == CHOOSE img \in SeqToSet(images[d]) : img.id = id
    IN  [id |-> id, name |-> img.name, dataset_id |-> d]

\* run_move_images, up to its first call that changes the platform
move_images(p, image_ids) ==
    /\ req[p].pc = "idle"
    /\ \/ /\ Len(image_ids) = 0
          /\ req' = [req EXCEPT ![p] =
                [@ EXCEPT !.pc = "done", !.kind = "move",
                          !.result = [kind |-> "moved", num_added |-> 0,
                                      train_collection |-> None,
                                      val_collection |-> None]]]
       \/ /\ Len(image_ids) # 0
          /\ LET m == create_dataset_mapping(src_datasets, dst_datasets)
                 img_infos == [k \in DOMAIN image_ids |->
                                    ImageInfoById(src_images, image_ids[k])]
             IN  req' = [req EXCEPT ![p] = NextCall(src_datasets,
                    [@ EXCEPT !.kind = "move", !.move = TRUE,
                              !.image_ids = image_ids,
                              !.src_to_dst_map = m.src_to_dst_map,
                              !.ds_to_create = m.ds_to_create,
                              !.sampled_images = group_items(img_infos, <<>>),
                              !.i = 1])]
       \/ /\ Len(image_ids) # 0
          /\ req' = [req EXCEPT ![p] =
                Raise([@ EXCEPT !.kind = "move", !.move = TRUE,
                                !.image_ids = image_ids])]
    /\ UNCHANGED <<platform, create_log, run_counts>>

-----------------------------------------------------------------------------
(* Transfer Executor: copy_or_move_images, one platform call per step.     *)

\* A variant of the platform's create that hands back a dataset of the same
\* name under the same parent when there is one.
CreateIfAbsent(p, src_ds_id, dst_parent_id) ==
    LET info == DatasetInfo(src_datasets, src_ds_id)
        same == SelectSeq(dst_datasets, LAMBDA d :
                    d.name = info.name /\ d.parent_id = dst_parent_id)
        new_id == Len(dst_datasets) + 1
        entry == [req |-> p, src |-> src_ds_id, dst |-> new_id,
                  parent |-> dst_parent_id,
                  mapped |-> DictGet(req[p].src_to_dst_map, src_ds_id),
                  src_parent |-> info.parent_id,
                  parent_mapped |-> DictGet(req[p].src_to_dst_map, info.parent_id)]
    IN  IF same = <<>>
        THEN /\ dst_datasets' = Append(dst_datasets,
                    [id |-> new_id, name |-> info.name, parent_id |-> dst_parent_id])
             /\ dst_images' = Append(dst_images, <<>>)
             /\ create_log' = Append(create_log, entry)
        ELSE /\ UNCHANGED <<dst_datasets, dst_images>>
             /\ create_log' = Append(create_log,
                    [entry EXCEPT !.dst = Head(same).id])

\* api.dataset.create(dst_project_id, name, parent_id=...): the platform adds
\* a dataset with a fresh id.  create_log keeps, for each call, what the
\* correspondence held for the dataset and for its source parent just before.
DatasetCreate(p, src_ds_id, dst_parent_id) ==
    LET info == DatasetInfo(src_datasets, src_ds_id)
        new_id == Len(dst_datasets) + 1
    IN  /\ dst_datasets' = Append(dst_datasets,
                [id |-> new_id, name |-> info.name, parent_id |-> dst_parent_id])
        /\ dst_images' = Append(dst_images, <<>>)
        /\ create_log' = Append(create_log,
                [req |-> p, src |-> src_ds_id, dst |-> new_id,
                 parent |-> dst_parent_id,
                 mapped |-> DictGet(req[p].src_to_dst_map, src_ds_id),
                 src_parent |-> info.parent_id,
                 parent_mapped |-> DictGet(req[p].src_to_dst_map, info.parent_id)])

\* for parent_id in src_parent_ids: one iteration
create_parent(p) ==
    LET r == req[p]
        src_ds_id == r.sampled_images[r.i].ds
        src_parent_ids == src_child_to_parents(src_datasets, src_ds_id)
        parent_id == src_parent_ids[r.j]
        new_id == Len(dst_datasets) + 1
    IN  /\ r.pc = "create_parent"
        /\ \/ /\ DatasetCreate(p, parent_id, r.dst_parent_id)
              /\ req' = [req EXCEPT ![p] =
                    [r EXCEPT !.dst_parent_id = new_id,
                              !.src_to_dst_map = DictPut(@, parent_id, new_id),
                              !.j = @ + 1,
                              !.pc = IF r.j = Len(src_parent_ids)
                                     THEN "create_self" ELSE "create_parent"]]
              /\ UNCHANGED <<src_datasets, src_images, next_image_id,
                             src_collection, dst_collections, run_counts>>
           \/ /\ req' = [req EXCEPT ![p] = Raise(r)]
              /\ UNCHANGED <<platform, create_log, run_counts>>

\* the dataset of the selection itself, under the last dataset created
create_self(p) ==
    LET r == req[p]
        src_ds_id == r.sampled_images[r.i].ds
        new_id == Len(dst_datasets) + 1
    IN  /\ r.pc = "create_self"
        /\ \/ /\ DatasetCreate(p, src_ds_id, r.dst_parent_id)
              /\ req' = [req EXCEPT ![p] =
                    [r EXCEPT !.dst_ds_id = new_id,
                              !.src_to_dst_map = DictPut(@, src_ds_id, new_id),
                              !.pc = "copy"]]
              /\ UNCHANGED <<src_datasets, src_images, next_image_id,
                             src_collection, dst_collections, run_counts>>
           \/ /\ req' = [req EXCEPT ![p] = Raise(r)]
              /\ UNCHANGED <<platform, create_log, run_counts>>

\* The images the platform makes for a copy request: one per source image, in
\* the order of the request, with the source's name and a fresh id.
CopiedImages(src_imgs, first_id) ==
    [k \in DOMAIN src_imgs |->
        [id |-> first_id + k - 1, name |-> src_imgs[k].name,
         copy_of |-> src_imgs[k].id]]

\* A variant that records the whole source listing of the dataset.
ListedIds(r) == ImageIds(src_images[r.sampled_images[r.i].ds])

\* src[src_ds_id] = [i.id for i in src_imgs]
src_ids(r) == ImageIds(r.sampled_images[r.i].imgs)

\* src[src_ds_id] = ...; added[dst_ds_id] = ...; and on to the next item
RecordItem(r) ==
    LET src_ds_id == r.sampled_images[r.i].ds
    IN  NextCall(src_datasets,
            [r EXCEPT !.src = DictPut(@, src_ds_id, src_ids(r)),
                      !.added = DictPut(@, r.dst_ds_id, ImageIds(r.new_imgs)),
                      !.copied_to = DictPut(@, src_ds_id, r.dst_ds_id),
                      !.new_imgs = <<>>,
                      !.i = @ + 1])

\* A variant that goes on to the removal after a failed copy.
SwallowCopyError(r) == [r EXCEPT !.pc = "remove"]

\* copy_batch_optimized raised: nothing catches it inside the transfer
CopyFailed(r) == Raise(r)

\* new_imgs = api.image.copy_batch_optimized(...).  A failing request may
\* leave the first images of the batch copied.
copy_images(p) ==
    LET r == req[p]
        src_ds_id == r.sampled_images[r.i].ds
        src_imgs == r.sampled_images[r.i].imgs
        new_imgs == CopiedImages(src_imgs, next_image_id)
    IN  /\ r.pc = "copy"
        /\ r.dst_ds_id \in DOMAIN dst_images
        /\ \/ /\ SeqToSet(ImageIds(src_imgs))
                    \subseteq SeqToSet(ImageIds(src_images[src_ds_id]))
              /\ dst_images' = [dst_images EXCEPT ![r.dst_ds_id] = @ \o new_imgs]
              /\ next_image_id' = next_image_id + Len(src_imgs)
              /\ req' = [req EXCEPT ![p] =
                    IF r.move THEN [r EXCEPT !.new_imgs = new_imgs, !.pc = "remove"]
                    ELSE RecordItem([r EXCEPT !.new_imgs = new_imgs])]
           \/ \E n \in 0..(Len(src_imgs) - 1) :
              /\ dst_images' = [dst_images EXCEPT ![r.dst_ds_id] =
                                    @ \o SubSeq(new_imgs, 1, n)]
              /\ next_image_id' = next_image_id + n
              /\ req' = [req EXCEPT ![p] = CopyFailed(r)]
        /\ UNCHANGED <<src_datasets, dst_datasets, src_images, src_collection,
                       dst_collections, create_log, run_counts>>

\* api.image.remove_batch([i.id for i in src_imgs], batch_size=200)
remove_ids(r) == ImageIds(r.sampled_images[r.i].imgs)

remove_images(p) ==
    LET r == req[p]
        src_ds_id == r.sampled_images[r.i].ds
        gone == SeqToSet(remove_ids(r))
    IN  /\ r.pc = "remove"
        /\ \/ /\ src_images' = [d \in DOMAIN src_images |->
                    SelectSeq(src_images[d], LAMBDA img : img.id \notin gone)]
              /\ req' = [req EXCEPT ![p] = RecordItem(r)]
           \/ /\ req' = [req EXCEPT ![p] = Raise(r)]
              /\ UNCHANGED src_images
        /\ UNCHANGED <<src_datasets, dst_datasets, dst_images, next_image_id,
                       src_collection, dst_collections, create_log, run_counts>>

-----------------------------------------------------------------------------
(* Move-with-split: the tail of run_move_images.                           *)

Percents == {0, 20, 50, 70, 100}

\* The largest list whose every ordering is explored as a shuffle outcome;
\* of a longer list the rotations are explored, each also reversed.
MaxShuffle == 3

Reverse(s) == [k \in DOMAIN s |-> s[Len(s) + 1 - k]]

Rotate(s, n) == SubSeq(s, n + 1, Len(s)) \o SubSeq(s, 1, n)

\* random.shuffle(new_img_ids): the orderings explored
Shuffles(s) ==
    IF Len(s) <= MaxShuffle
    THEN {[k \in DOMAIN s |-> s[a[k]]] : a \in Arrangements(DOMAIN s, Len(s))}
    ELSE {Rotate(s, n) : n \in 0..(Len(s) - 1)}
            \cup {Reverse(Rotate(s, n)) : n \in 0..(Len(s) - 1)}

\* s[a:b] for 0 <= a <= b
Slice(s, a, b) == SubSeq(s, a + 1, IF b < Len(s) THEN b ELSE Len(s))

\* for img_ids in added.values(): new_img_ids.extend(img_ids)  (the list is
\* shuffled before it is read, so the order of the keys does not matter)
RECURSIVE flatten_added(_, _)
flatten_added(added, keys) ==
    IF keys = {} THEN <<>>
    ELSE LET k == CHOOSE k \in keys : \A h \in keys : k <= h
         IN  added[k] \o flatten_added(added, keys \ {k})

\* floor(total * pct / 100), in exact arithmetic
ExactCount(num_added, percent) == (num_added * percent) \div 100

\* int(num_added / 100 * train_percent)
split_count(num_added, percent) == IntOfQuotientTimes(num_added, 100, percent)

\* val_ids = new_img_ids[train_count : train_count + val_count]
val_slice(new_img_ids, train_count, val_count) ==
    Slice(new_img_ids, train_count, train_count + val_count)

\* g.api.entities_collection.remove_items(src_collection_id, image_ids),
\* made only when the request names a source collection
collection_remove(p) ==
    LET r == req[p]
    IN  /\ r.pc = "after_transfer"
        /\ \/ /\ src_collection' = src_collection \ SeqToSet(r.image_ids)
              /\ req' = [req EXCEPT ![p] = [r EXCEPT !.pc = "split"]]
           \/ /\ req' = [req EXCEPT ![p] = Raise(r)]
              /\ UNCHANGED src_collection
        /\ UNCHANGED <<src_datasets, dst_datasets, src_images, dst_images,
                       next_image_id, dst_collections, create_log, run_counts>>

MoveResult(num_added, train_collection, val_collection) ==
    [kind |-> "moved", num_added |-> num_added,
     train_collection |-> train_collection, val_collection |-> val_collection]

\* the return of run_move_images when split_settings is None (or its mode is
\* not "random")
finish_move(p) ==
    LET r == req[p]
        num_added == Len(flatten_added(r.added, DOMAIN r.added))
    IN  /\ r.pc \in {"after_transfer", "split"}
        /\ req' = [req EXCEPT ![p] =
                [r EXCEPT !.pc = "done", !.num_added = num_added,
                          !.result = MoveResult(num_added, None, None)]]
        /\ UNCHANGED <<platform, create_log, run_counts>>

\* the random split: counts, shuffle, slices, and the two collections when
\* both slices are non-empty (collection create and add_items calls, any of
\* which may fail)
split_random(p, train_percent, val_percent) ==
    LET r == req[p]
        new_img_ids == flatten_added(r.added, DOMAIN r.added)
        num_added == Len(new_img_ids)
        train_count == split_count(num_added, train_percent)
        val_count == split_count(num_added, val_percent)
        n == Len(dst_collections)
    IN  /\ r.pc \in {"after_transfer", "split"}
        /\ \E shuffled \in Shuffles(new_img_ids) :
            LET train_ids == Slice(shuffled, 0, train_count)
                val_ids == val_slice(shuffled, train_count, val_count)
                split == [r EXCEPT !.num_added = num_added,
                                   !.split_mode = "random",
                                   !.train_percent = train_percent,
                                   !.val_percent = val_percent,
                                   !.train_ids = train_ids,
                                   !.val_ids = val_ids]
            IN  IF Len(train_ids) > 0 /\ Len(val_ids) > 0
                THEN \/ /\ dst_collections' = dst_collections \o
                                <<[kind |-> "train", items |-> SeqToSet(train_ids)],
                                  [kind |-> "val", items |-> SeqToSet(val_ids)]>>
                        /\ req' = [req EXCEPT ![p] =
                            [split EXCEPT !.pc = "done",
                                !.result = MoveResult(num_added, n + 1, n + 2)]]
                     \/ /\ req' = [req EXCEPT ![p] = Raise(split)]
                        /\ UNCHANGED dst_collections
                ELSE /\ req' = [req EXCEPT ![p] =
                            [split EXCEPT !.pc = "done",
                                !.result = MoveResult(num_added, None, None)]]
                     /\ UNCHANGED dst_collections
        /\ UNCHANGED <<src_datasets, dst_datasets, src_images, dst_images,
                       next_image_id, src_collection, create_log, run_counts>>

-----------------------------------------------------------------------------
(* The platform states the requests start from.                            *)

Dataset(id, name, parent_id) == [id |-> id, name |-> name, parent_id |-> parent_id]

\* Source projects: a chain a/b/c, a fork a/{b,c}, and two roots a, b with a
\* second b under a.
SrcForests ==
    { <<Dataset(1, "a", None), Dataset(2, "b", 1), Dataset(3, "c", 2)>>,
      <<Dataset(1, "a", None), Dataset(2, "b", 1), Dataset(3, "c", 1)>>,
      <<Dataset(1, "a", None), Dataset(2, "b", None), Dataset(3, "b", 1)>> }

ParentClosed(flat, S) ==
    \A id \in S : DatasetInfo(flat, id).parent_id \in S \cup {None}

\* The destination project after an earlier transfer of the datasets S: a copy
\* of each, under the copy of its parent, with ids in order of creation.
RECURSIVE CopyOfDatasets(_, _, _)
CopyOfDatasets(flat, S, made) ==
    IF S = {} THEN <<>>
    ELSE LET id == CHOOSE id \in S : \A h \in S : id <= h
             info == DatasetInfo(flat, id)
             new_id == Cardinality(DOMAIN made) + 1
         IN  <<Dataset(new_id, info.name, DictGet(made, info.parent_id))>>
                \o CopyOfDatasets(flat, S \ {id}, DictPut(made, id, new_id))

\* The most images the source project holds.
MaxSrcImages == 3

\* The longest image_ids list of a move request.
MaxMoveIds == 2

\* The largest sample_size of a sample request.
MaxSampleSize == 3

\* Source images: counts[d] images in dataset d, named by their place in it,
\* with ids in listing order across the project.
SourceImages(counts) ==
    [d \in DOMAIN counts |->
        [k \in 1..counts[d] |->
            [id |-> SumSeq(SubSeq(counts, 1, d - 1)) + k, name |-> k]]]

InitRequests == req = [p \in Requests |-> IdleRequest]

Init ==
    /\ src_datasets \in SrcForests
    /\ \E S \in SUBSET DatasetIds(src_datasets) :
        /\ ParentClosed(src_datasets, S)
        /\ dst_datasets = CopyOfDatasets(src_datasets, S, EmptyDict)
    /\ \E counts \in [DOMAIN src_datasets -> 0..MaxSrcImages] :
        /\ SumSeq(counts) <= MaxSrcImages
        /\ src_images = SourceImages(counts)
        /\ next_image_id = SumSeq(counts) + 1
    /\ dst_images = [d \in DOMAIN dst_datasets |-> <<>>]
    /\ src_collection = {img.id : img \in AllImages(src_images)}
    /\ dst_collections = <<>>
    /\ InitRequests
    /\ create_log = <<>>
    /\ run_counts = <<>>

\* The image_ids a move request may name: source images, each once.
MoveRequests ==
    UNION {Arrangements({img.id : img \in AllImages(src_images)}, n) :
                n \in 0..MaxMoveIds}

Step(p, splits) ==
    \/ \E sample_size \in 0..MaxSampleSize : random_sample(p, sample_size)
    \/ \E image_ids \in MoveRequests : move_images(p, image_ids)
    \/ create_parent(p)
    \/ create_self(p)
    \/ copy_images(p)
    \/ remove_images(p)
    \/ collection_remove(p)
    \/ finish_move(p)
    \/ \E split \in splits : split_random(p, split[1], split[2])

\* One request; a move that splits does so with train 50 / val 50.
Next == Step(1, {<<50, 50>>})

Spec == Init /\ [][Next]_vars

-----------------------------------------------------------------------------
(* Properties of the transfer executor, checked under Spec.                *)

\* The correspondence the mapper computed when the request began: the
\* destination datasets that existed before the request's own creations.
MapperMatch(src_ds_id) ==
    DictGet(create_dataset_mapping(
                src_datasets,
                SubSeq(dst_datasets, 1, Len(dst_datasets) - Len(create_log))
            ).src_to_dst_map, src_ds_id)

\* C1: every destination dataset created for a source dataset d is a root
\* exactly when d is a root, and otherwise lies under the destination
\* counterpart of d's source parent: the dataset the mapper matched, or else
\* the one created for the parent before.
C1_CreatedUnderParentCounterpart ==
    \A k \in DOMAIN create_log :
        LET c == create_log[k]
        IN  /\ (c.parent = None) <=> (c.src_parent = None)
            /\ c.src_parent # None =>
                /\ c.parent_mapped # None
                /\ c.parent = c.parent_mapped
                /\ MapperMatch(c.src_parent) # None
                    => c.parent = MapperMatch(c.src_parent)

\* C2: a dataset is created for a source dataset only while the
\* correspondence holds no destination id for it, so no request creates two
\* destination datasets for one source dataset.
C2_CreatedOnlyWhenUnresolved ==
    /\ \A k \in DOMAIN create_log : create_log[k].mapped = None
    /\ \A k, h \in DOMAIN create_log :
        (k # h /\ create_log[k].req = create_log[h].req)
            => create_log[k].src # create_log[h].src

InSource(id) == \E img \in AllImages(src_images) : img.id = id

HasCopy(id) == \E img \in AllImages(dst_images) : img.copy_of = id

\* C3: in a move the remove call is made only once every image of the batch
\* has its copy, and every image the move was asked for is in the source or
\* has a copy in the destination, in every state, failed requests included.
C3_MoveNeverLosesImages ==
    \A p \in Requests :
        LET r == req[p]
        IN  r.move =>
            /\ r.pc = "remove" =>
                \A k \in DOMAIN r.sampled_images[r.i].imgs :
                    HasCopy(r.sampled_images[r.i].imgs[k].id)
            /\ \A k \in DOMAIN r.image_ids :
                InSource(r.image_ids[k]) \/ HasCopy(r.image_ids[k])

\* A move failed after some of its images were already removed from the source.
C3_Witness ==
    \E p \in Requests :
        /\ req[p].move
        /\ req[p].pc = "failed"
        /\ \E k \in DOMAIN req[p].image_ids : ~InSource(req[p].image_ids[k])

CopyOfImage(dst_ds_id, id) ==
    (CHOOSE img \in SeqToSet(dst_images[dst_ds_id]) : img.id = id).copy_of

\* C9: for every source dataset the transfer has processed, its source-id list
\* and the destination-id list of the dataset it was copied into have the
\* same length, and the k-th destination image is the copy of the k-th
\* source image.
C9_TransferAligned ==
    \A p \in Requests :
        LET r == req[p]
        IN  \A s \in DOMAIN r.src :
                LET d == r.copied_to[s]
                IN  /\ d \in DOMAIN r.added
                    /\ Len(r.added[d]) = Len(r.src[s])
                    /\ \A k \in DOMAIN r.src[s] :
                        /\ \E img \in SeqToSet(dst_images[d]) : img.id = r.added[d][k]
                        /\ CopyOfImage(d, r.added[d][k]) = r.src[s][k]

\* A finished transfer over two source datasets, one of them with two images.
C9_Witness ==
    \E p \in Requests :
        /\ req[p].pc = "done"
        /\ Cardinality(DOMAIN req[p].src) >= 2
        /\ \E s \in DOMAIN req[p].src : Len(req[p].src[s]) >= 2

\* C6: when no source dataset has an image missing from the destination, the
\* difference set a sample request computes is empty, the request ends with
\* the result {src: null, dst: null}, and no dataset is created and no image
\* copied.
C6_NoDifferenceIsNothingToDo ==
    \A p \in Requests :
        LET r == req[p]
        IN  (r.kind = "sample" /\ r.sample_size # 0 /\ r.pc # "failed"
                /\ total_diffs(r.diff_images) = 0) =>
                /\ r.diff_images = <<>>
                /\ r.pc = "done"
                /\ r.result = NothingToDo
                /\ create_log = <<>>
                /\ \A d \in DOMAIN dst_images : dst_images[d] = <<>>

-----------------------------------------------------------------------------
(* The mapper on its own: create_dataset_mapping applied to any pair of    *)
(* small dataset trees.                                                    *)

\* The most datasets of a tree handed to the mapper.
MaxMapDatasets == 3

MapNames == {"a", "b"}

\* Every flat list of n datasets whose parents precede them and whose
\* siblings have distinct names.
RECURSIVE Forests(_)
Forests(n) ==
    IF n = 0 THEN {<<>>}
    ELSE {Append(f, Dataset(n, name, parent_id)) :
            f \in Forests(n - 1), name \in MapNames, parent_id \in 0..(n - 1)}

\* src_to_dst_map, ds_to_create = create_dataset_mapping(src_ds_tree, dst_ds_tree)
apply_mapping(p) ==
    /\ req[p].pc = "idle"
    /\ LET m == create_dataset_mapping(src_datasets, dst_datasets)
       IN  req' = [req EXCEPT ![p] =
                [@ EXCEPT !.pc = "mapped",
                          !.src_to_dst_map = m.src_to_dst_map,
                          !.ds_to_create = m.ds_to_create]]
    /\ UNCHANGED <<platform, create_log, run_counts>>

InitMap ==
    /\ \E n \in 1..MaxMapDatasets :
        /\ src_datasets \in Forests(n)
        /\ UniqueSiblingNames(src_datasets)
        /\ src_images = [d \in 1..n |-> <<>>]
    /\ \E n \in 0..MaxMapDatasets :
        /\ dst_datasets \in Forests(n)
        /\ UniqueSiblingNames(dst_datasets)
        /\ dst_images = [d \in 1..n |-> <<>>]
    /\ next_image_id = 1
    /\ src_collection = {}
    /\ dst_collections = <<>>
    /\ InitRequests
    /\ create_log = <<>>
    /\ run_counts = <<>>

NextMap == apply_mapping(1)

SpecMap == InitMap /\ [][NextMap]_vars

\* The datasets below a dataset, at any depth.
RECURSIVE Descendants(_, _)
Descendants(flat, id) ==
    LET kids == {ds.id : ds \in SeqToSet(Children(flat, id))}
    IN  kids \cup UNION {Descendants(flat, k) : k \in kids}

\* The destination datasets at the tree position of a source dataset: the
\* destination roots for a source root, else the children of the
\* destination dataset found by following the parent's names from the roots
\* (none when that path breaks off).
RECURSIVE PositionOf(_, _, _)
PositionOf(src, dst, id) ==
    LET info == DatasetInfo(src, id)
        level == IF info.parent_id = None THEN Children(dst, None)
                 ELSE LET up == PositionOf(src, dst, info.parent_id)
                          same == SelectSeq(up, LAMBDA d :
                                    d.name = DatasetInfo(src, info.parent_id).name)
                      IN  IF same = <<>> THEN <<>>
                          ELSE Children(dst, Head(same).id)
    IN  level

NoSiblingMatch(src, dst, id) ==
    \A d \in SeqToSet(PositionOf(src, dst, id)) :
        d.name # DatasetInfo(src, id).name

\* C8: a source dataset with no name-equal destination dataset at its own
\* tree position maps to absent and is in the creation list, and so is every
\* dataset below it, whatever names occur elsewhere in the destination.
C8_PositionalMapping ==
    \A p \in Requests :
        req[p].pc = "mapped" =>
            \A s \in DatasetIds(src_datasets) :
                NoSiblingMatch(src_datasets, dst_datasets, s) =>
                    \A t \in {s} \cup Descendants(src_datasets, s) :
                        /\ t \in DOMAIN req[p].src_to_dst_map
                        /\ req[p].src_to_dst_map[t] = None
                        /\ t \in SeqToSet(req[p].ds_to_create)

\* A mapped pair of trees where an unmatched source dataset has a dataset
\* below it whose name occurs in the destination tree.
C8_Witness ==
    \E p \in Requests :
        /\ req[p].pc = "mapped"
        /\ \E s \in DatasetIds(src_datasets) :
            /\ NoSiblingMatch(src_datasets, dst_datasets, s)
            /\ \E t \in Descendants(src_datasets, s) :
                \E d \in SeqToSet(dst_datasets) :
                    d.name = DatasetInfo(src_datasets, t).name

-----------------------------------------------------------------------------
(* The difference engine on its own: get_diffs applied to small projects   *)
(* whose destination datasets already hold images.                         *)

\* The most images of a dataset handed to get_diffs.
MaxDiffImages == 2

DiffForests ==
    { <<Dataset(1, "a", None), Dataset(2, "b", 1)>>,
      <<Dataset(1, "a", None), Dataset(2, "b", None)>> }

\* Images with the given names, in ascending order of name.
RECURSIVE NamedImages(_, _)
NamedImages(names, first_id) ==
    IF names = {} THEN <<>>
    ELSE LET n == CHOOSE n \in names : \A h \in names : n <= h
         IN  <<[id |-> first_id, name |-> n, copy_of |-> None]>>
                \o NamedImages(names \ {n}, first_id + 1)

\* diffs = f.get_diffs(g.api, src_datasets, src_ds_tree, dst_ds_tree)
compute_diffs(p) ==
    /\ req[p].pc = "idle"
    /\ LET diffs == get_diffs(src_datasets, src_datasets, dst_datasets,
                              src_images, dst_images)
       IN  req' = [req EXCEPT ![p] =
                [@ EXCEPT !.pc = "diffed", !.kind = "sample",
                          !.diff_images = diffs.diff_images,
                          !.src_to_dst_map = diffs.src_to_dst_map,
                          !.ds_to_create = diffs.ds_to_create]]
    /\ UNCHANGED <<platform, create_log, run_counts>>

InitDiff ==
    /\ src_datasets \in DiffForests
    /\ \E S \in SUBSET DatasetIds(src_datasets) :
        /\ ParentClosed(src_datasets, S)
        /\ dst_datasets = CopyOfDatasets(src_datasets, S, EmptyDict)
    /\ \E counts \in [DOMAIN src_datasets -> 0..MaxDiffImages] :
        src_images = SourceImages(counts)
    /\ \E names \in [DOMAIN dst_datasets -> SUBSET (1..(MaxDiffImages + 1))] :
        dst_images = [d \in DOMAIN dst_datasets |->
                        NamedImages(names[d], 100 * d)]
    /\ next_image_id = 1000
    /\ src_collection = {}
    /\ dst_collections = <<>>
    /\ InitRequests
    /\ create_log = <<>>
    /\ run_counts = <<>>

NextDiff == compute_diffs(1)

SpecDiff == InitDiff /\ [][NextDiff]_vars

\* The source images of a dataset whose name no destination image has, in
\* listing order.
MissingByName(src_imgs, dst_imgs) ==
    SelectSeq(src_imgs, LAMBDA img :
        \A k \in DOMAIN dst_imgs : dst_imgs[k].name # img.name)

\* C7: for every source dataset, the difference list computed by get_diffs is,
\* in listing order, the source images whose name no image of the
\* corresponding destination dataset has; for a dataset the correspondence
\* marks absent it is the full source listing, in order.
C7_DiffByName ==
    \A p \in Requests :
        req[p].pc = "diffed" =>
            \A s \in DatasetIds(src_datasets) :
                LET d == DictGet(req[p].src_to_dst_map, s)
                IN  DictItems(req[p].diff_images, s) =
                        IF d = None THEN src_images[s]
                        ELSE MissingByName(src_images[s], dst_images[d])

\* A computed difference with one dataset absent from the destination and one
\* present there holding some, but not all, of the source names.
C7_Witness ==
    \E p \in Requests :
        /\ req[p].pc = "diffed"
        /\ \E s, t \in DatasetIds(src_datasets) :
            /\ DictGet(req[p].src_to_dst_map, s) = None
            /\ src_images[s] # <<>>
            /\ LET d == DictGet(req[p].src_to_dst_map, t)
               IN  /\ d # None
                   /\ MissingByName(src_images[t], dst_images[d]) # <<>>
                   /\ MissingByName(src_images[t], dst_images[d]) # src_images[t]

-----------------------------------------------------------------------------
(* The sampler on its own: prepare_sample run twice on one difference set. *)

\* The most images of one dataset's difference list handed to the sampler.
MaxDiffLen == 2

SampleNames == <<"a", "b", "c">>

SampleDatasets == DOMAIN SampleNames

\* The number of images a selection takes from each dataset of diffs.
SelectionCounts(diffs, sampled_images) ==
    [ds_id \in DictKeys(diffs) |-> Len(DictItems(sampled_images, ds_id))]

\* sampled_images = f.prepare_sample(diff_images, sample_size)
sample_run(p) ==
    LET r == req[p]
    IN  /\ r.pc = "sampling"
        /\ \E s \in prepare_sample(r.diff_images, r.sample_size) :
            /\ req' = [req EXCEPT ![p] =
                    [r EXCEPT !.pc = "sampled",
                              !.samples_per_dataset = s.samples_per_dataset,
                              !.sampled_images = s.sampled_images]]
            /\ run_counts' = Append(run_counts,
                    SelectionCounts(r.diff_images, s.sampled_images))
        /\ UNCHANGED platform
        /\ UNCHANGED create_log

\* A second call with the same arguments.
sample_again(p) ==
    LET r == req[p]
    IN  /\ r.pc = "sampled"
        /\ Len(run_counts) < 2
        /\ req' = [req EXCEPT ![p] =
                [r EXCEPT !.pc = "sampling",
                          !.samples_per_dataset = EmptyDict,
                          !.sampled_images = <<>>]]
        /\ UNCHANGED <<platform, create_log, run_counts>>

InitSample ==
    /\ src_datasets = [d \in SampleDatasets |-> Dataset(d, SampleNames[d], None)]
    /\ dst_datasets = <<>>
    /\ \E counts \in [SampleDatasets -> 0..MaxDiffLen] :
        /\ src_images = SourceImages(counts)
        /\ \E sample_size \in 1..MaxSampleSize :
            req = [p \in Requests |->
                    IF p = 1
                    THEN [IdleRequest EXCEPT
                            !.pc = "sampling", !.kind = "sample",
                            !.sample_size = sample_size,
                            !.diff_images =
                                [d \in SampleDatasets |->
                                    [ds |-> d, imgs |-> src_images[d]]]]
                    ELSE IdleRequest]
    /\ dst_images = <<>>
    /\ next_image_id = 1000
    /\ src_collection = {}
    /\ dst_collections = <<>>
    /\ create_log = <<>>
    /\ run_counts = <<>>

NextSample == sample_run(1) \/ sample_again(1)

SpecSample == InitSample /\ [][NextSample]_vars

\* C4: for a sample size above 0 and below the number of difference images,
\* the per-dataset counts of the returned selection add up to the sample
\* size and none exceeds the length of its dataset's difference list,
\* whatever the random choices were.
C4_SampleCountConservation ==
    \A p \in Requests :
        LET r == req[p]
        IN  (r.pc = "sampled" /\ 0 < r.sample_size
                /\ r.sample_size < total_diffs(r.diff_images)) =>
                LET counts == SelectionCounts(r.diff_images, r.sampled_images)
                IN  /\ SumCounts(counts) = r.sample_size
                    /\ \A ds_id \in DOMAIN counts :
                        counts[ds_id] <= Len(DictItems(r.diff_images, ds_id))
                    /\ \A k \in DOMAIN r.sampled_images :
                        /\ r.sampled_images[k].ds \in DictKeys(r.diff_images)
                        /\ SeqToSet(r.sampled_images[k].imgs) \subseteq
                            SeqToSet(DictItems(r.diff_images,
                                               r.sampled_images[k].ds))
                        /\ \A a, b \in DOMAIN r.sampled_images[k].imgs :
                            a # b => r.sampled_images[k].imgs[a]
                                        # r.sampled_images[k].imgs[b]

\* A finished run whose proportional shares fell short of the sample size by
\* two or more, so that the random remainder distribution ran.
C4_Witness ==
    \E p \in Requests :
        LET r == req[p]
        IN  /\ r.pc = "sampled"
            /\ 0 < r.sample_size
            /\ r.sample_size < total_diffs(r.diff_images)
            /\ r.sample_size
                - SumCounts(proportional_samples(r.diff_images, r.sample_size))
                    >= 2

SharesAddUp(r) ==
    \/ r.sample_size >= total_diffs(r.diff_images)
    \/ SumCounts(proportional_samples(r.diff_images, r.sample_size))
            = r.sample_size

\* C5 as stated: two runs of the sampler on the same difference set and
\* sample size select the same number of images from every dataset.
C5_CountsSameInEveryRun ==
    Len(run_counts) = 2 => run_counts[1] = run_counts[2]

\* C5 amended: two runs on the same inputs select the same total number of
\* images, and from each dataset at least its proportional share
\* int(len / total * size) and at most its difference count; the per-dataset
\* counts are the same in every run when the proportional shares add up to
\* the sample size (or the sample size is not below the total).
C5_CountsSameWhenSharesAddUp ==
    \A p \in Requests :
        LET r == req[p]
        IN  (r.pc = "sampled" /\ Len(run_counts) = 2) =>
                /\ SumCounts(run_counts[1]) = SumCounts(run_counts[2])
                /\ \A n \in 1..2 : \A ds_id \in DOMAIN run_counts[n] :
                    /\ run_counts[n][ds_id] <=
                            Len(DictItems(r.diff_images, ds_id))
                    /\ r.sample_size < total_diffs(r.diff_images) =>
                        run_counts[n][ds_id] >=
                            proportional_samples(r.diff_images,
                                                 r.sample_size)[ds_id]
                /\ SharesAddUp(r) => run_counts[1] = run_counts[2]

\* Two finished runs on one input whose shares fall short of the sample
\* size, with different per-dataset counts.
C5_Witness ==
    \E p \in Requests :
        LET r == req[p]
        IN  /\ r.pc = "sampled"
            /\ Len(run_counts) = 2
            /\ r.sample_size < total_diffs(r.diff_images)
            /\ ~SharesAddUp(r)
            /\ run_counts[1] # run_counts[2]

-----------------------------------------------------------------------------
(* The random split on its own: the tail of run_move_images after a move   *)
(* of n images of one dataset into its destination counterpart.            *)

\* The most images of the move that is split.
MaxMoved == 58

InitSplit ==
    \E n \in 1..MaxMoved :
        /\ src_datasets = <<Dataset(1, "a", None)>>
        /\ dst_datasets = <<Dataset(1, "a", None)>>
        /\ src_images = <<<<>>>>
        /\ dst_images = <<[k \in 1..n |->
                            [id |-> n + k, name |-> k, copy_of |-> k]]>>
        /\ next_image_id = 2 * n + 1
        /\ src_collection = 1..n
        /\ dst_collections = <<>>
        /\ req = [p \in Requests |->
                    IF p = 1
                    THEN [IdleRequest EXCEPT
                            !.pc = "after_transfer", !.kind = "move",
                            !.move = TRUE,
                            !.image_ids = [k \in 1..n |-> k],
                            !.src_to_dst_map = DictPut(EmptyDict, 1, 1),
                            !.sampled_images =
                                <<[ds |-> 1,
                                   imgs |-> [k \in 1..n |->
                                                [id |-> k, name |-> k]]]>>,
                            !.i = 2, !.dst_ds_id = 1,
                            !.src = DictPut(EmptyDict, 1, [k \in 1..n |-> k]),
                            !.added = DictPut(EmptyDict, 1,
                                              [k \in 1..n |-> n + k]),
                            !.copied_to = DictPut(EmptyDict, 1, 1)]
                    ELSE IdleRequest]
        /\ create_log = <<>>
        /\ run_counts = <<>>

NextSplit ==
    \/ collection_remove(1)
    \/ finish_move(1)
    \/ \E train_percent, val_percent \in Percents :
            split_random(1, train_percent, val_percent)

SpecSplit == InitSplit /\ [][NextSplit]_vars

\* C10: after a random split with percentages that add up to at most 100,
\* the train set holds exactly floor(total * train_pct / 100) and the val set
\* exactly floor(total * val_pct / 100) of the newly created destination
\* image ids, and the two sets are disjoint.
C10_SplitCounts ==
    \A p \in Requests :
        LET r == req[p]
            new_img_ids == SeqToSet(flatten_added(r.added, DOMAIN r.added))
        IN  (r.split_mode = "random"
                /\ r.train_percent + r.val_percent <= 100) =>
                /\ Len(r.train_ids) = ExactCount(r.num_added, r.train_percent)
                /\ Len(r.val_ids) = ExactCount(r.num_added, r.val_percent)
                /\ SeqToSet(r.train_ids) \subseteq new_img_ids
                /\ SeqToSet(r.val_ids) \subseteq new_img_ids
                /\ SeqToSet(r.train_ids) \cap SeqToSet(r.val_ids) = {}

-----------------------------------------------------------------------------
(* Two requests at once: the handlers are independent, each a chain of     *)
(* blocking platform calls, so the calls of two requests against the same  *)
(* pair of projects interleave in any order.  The source project is flat,  *)
(* so that no ancestor is ever created and every create request is for the *)
(* dataset of a selection itself.                                          *)

\* The most images the source project holds when two requests run at once.
MaxRaceImages == 2

RaceForest == <<Dataset(1, "a", None), Dataset(2, "b", None)>>

InitRace ==
    /\ src_datasets = RaceForest
    /\ \E S \in SUBSET DatasetIds(src_datasets) :
        dst_datasets = CopyOfDatasets(src_datasets, S, EmptyDict)
    /\ \E counts \in [DOMAIN src_datasets -> 0..MaxRaceImages] :
        /\ SumSeq(counts) <= MaxRaceImages
        /\ src_images = SourceImages(counts)
        /\ next_image_id = SumSeq(counts) + 1
    /\ dst_images = [d \in DOMAIN dst_datasets |-> <<>>]
    /\ src_collection = {img.id : img \in AllImages(src_images)}
    /\ dst_collections = <<>>
    /\ InitRequests
    /\ create_log = <<>>
    /\ run_counts = <<>>

\* Any request takes its next step; a move names one image and does not
\* split.
NextRace ==
    \E p \in Requests :
        \/ \E sample_size \in 1..MaxRaceImages : random_sample(p, sample_size)
        \/ \E img \in AllImages(src_images) : move_images(p, <<img.id>>)
        \/ create_self(p)
        \/ copy_images(p)
        \/ remove_images(p)
        \/ collection_remove(p)
        \/ finish_move(p)

SpecRace == InitRace /\ [][NextRace]_vars

SameNameSiblings(d, e) ==
    /\ d.id # e.id
    /\ d.name = e.name
    /\ d.parent_id = e.parent_id

\* C11: nothing between a request's reading of the trees and its create
\* request looks at the destination again.  Every create request is for a
\* dataset the request's own correspondence holds as absent, and when two
\* requests each issue one for the same source dataset under the same
\* destination parent, the second adds a second dataset of the same name
\* under that parent.
C11_BothRequestsCreate ==
    /\ \A k \in DOMAIN create_log :
        LET c == create_log[k]
        IN  /\ c.mapped = None
            /\ c.dst \in DatasetIds(dst_datasets)
            /\ DatasetInfo(dst_datasets, c.dst).name
                    = DatasetInfo(src_datasets, c.src).name
            /\ DatasetInfo(dst_datasets, c.dst).parent_id = c.parent
    /\ \A k, h \in DOMAIN create_log :
        (/\ k < h
         /\ create_log[k].req # create_log[h].req
         /\ create_log[k].src = create_log[h].src
         /\ create_log[k].parent = create_log[h].parent) =>
            SameNameSiblings(DatasetInfo(dst_datasets, create_log[k].dst),
                             DatasetInfo(dst_datasets, create_log[h].dst))

\* Two destination datasets of one name under one parent, made by the create
\* requests of two different requests for the same source dataset.
C11_Witness ==
    \E k, h \in DOMAIN create_log :
        /\ create_log[k].req # create_log[h].req
        /\ create_log[k].src = create_log[h].src
        /\ create_log[k].mapped = None
        /\ create_log[h].mapped = None
        /\ create_log[k].dst \in DatasetIds(dst_datasets)
        /\ create_log[h].dst \in DatasetIds(dst_datasets)
        /\ SameNameSiblings(DatasetInfo(dst_datasets, create_log[k].dst),
                            DatasetInfo(dst_datasets, create_log[h].dst))

-----------------------------------------------------------------------------
(* One sample request after another: the second starts after the first has *)
(* returned, with nothing else changing either project, and is followed up *)
(* to the difference set it computes.                                      *)

\* The second request's get_diffs, once the first request has returned.
next_diffs(p, q) ==
    /\ req[p].pc = "done"
    /\ compute_diffs(q)

NextSeq ==
    \/ \E sample_size \in 0..MaxSampleSize : random_sample(1, sample_size)
    \/ create_parent(1)
    \/ create_self(1)
    \/ copy_images(1)
    \/ next_diffs(1, 2)

SpecSeq == Init /\ [][NextSeq]_vars

\* The images request p reported as copied from source dataset s.
CopiedBy(p, s) ==
    IF req[p].result.kind = "data" /\ s \in DOMAIN req[p].result.src
    THEN SeqToSet(req[p].result.src[s])
    ELSE {}

\* C12: after a sample request has returned without error, the difference
\* set the next sample request computes holds none of the images the first
\* one copied.
C12_NoImageCopiedTwice ==
    (req[1].pc = "done" /\ req[2].pc = "diffed") =>
        \A s \in DatasetIds(src_datasets) :
            \A k \in DOMAIN DictItems(req[2].diff_images, s) :
                DictItems(req[2].diff_images, s)[k].id \notin CopiedBy(1, s)

=============================================================================
